---- MODULE Spec2Model ----
(***************************************************************************)
(* Model of the espresso ESP8266 driver: the +IPD URC framer               *)
(* (EspUrcDetector::process), the URC parser (EspUrc::parse,               *)
(* NetworkData::from_urc), the command catalog's encoders (as_bytes) and  *)
(* response decoders (parse), and the client's exchanges (send_command).   *)
(*                                                                         *)
(* A byte is a string token: a one-character string for an ASCII byte      *)
(* ("+", "5", ":"), "CR"/"LF" for 0x0D/0x0A, "SP" for the space and        *)
(* "xNN" for a byte >= 0x80.  A Rust str/String/&[u8] is a sequence of     *)
(* bytes.  Rust indices are 0-based; At and Bytes translate them.          *)
(***************************************************************************)
EXTENDS Integers, Sequences, FiniteSets, TLC

VARIABLES
    build,      \* build profile: are integer overflow checks compiled in
    buf,        \* the ingress buffer handed to EspUrcDetector::process
    res,        \* outcome of the last process call since the last received byte:
                \* its classification and message, the buffer it was given (old),
                \* whether the engine was waiting, whether it repeated a call
    waiting,    \* process answered Incomplete for the message being received
    overflowed, \* a received byte found the buffer full and is lost
    urc,        \* outcome of the last EspUrc::parse (check_urc)
    cmd,        \* the command of the exchange in progress
    wire,       \* outcome of the command's as_bytes, with the timeout it declares
    decoded,    \* outcome of the command's parse for the delivered response
    joined      \* a JoinAccessPoint exchange of this client has decoded to a
                \* response with connected set

vars == <<build, buf, res, waiting, overflowed, urc, cmd, wire, decoded, joined>>

-----------------------------------------------------------------------------
(* Bounds of the model *)

\* Longest run of bytes received after a five byte head.
MaxTail == 5

\* Longest run of bytes received after a head that is not "+IPD,".
MaxOtherTail == 2

\* Most lines in a response to JoinAccessPoint.
MaxJoinLines == 3

\* Most lines in a response to GetFirmwareVersion.
MaxFirmwareLines == 4

\* Width of usize, scaled down (the targets have 32 or 64 bits); it stays
\* above the buffer length, as 2^32 stays above MaxLen = 256.
UsizeBits == 4

-----------------------------------------------------------------------------
(* Bytes and strings *)

None == [kind |-> "None"]

\* usize::MAX + 1
UsizeModulus == 2 ^ UsizeBits

\* s[i] with a 0-based index
At(s, i) == s[i + 1]

\* the bytes of s[a..b] (0-based, b exclusive), a <= b <= Len(s)
Bytes(s, a, b) == SubSeq(s, a + 1, b)

\* str::starts_with
StartsWith(s, p) == Len(s) >= Len(p) /\ SubSeq(s, 1, Len(p)) = p

\* Value of a byte >= 0x80 (every other token is ASCII)
HighByte == [xC3 |-> 195, xA9 |-> 169, xFF |-> 255]

ByteVal(b) == IF b \in DOMAIN HighByte THEN HighByte[b] ELSE 0

\* UTF-8 continuation byte 10xxxxxx
IsContinuation(b) == ByteVal(b) >= 128 /\ ByteVal(b) < 192

\* str::is_char_boundary
IsCharBoundary(s, i) ==
    \/ i = 0
    \/ i = Len(s)
    \/ i > 0 /\ i < Len(s) /\ ~IsContinuation(At(s, i))

\* &s[a..b] panics unless a <= b <= len and both lie on char boundaries
SliceOk(s, a, b) ==
    a <= b /\ b <= Len(s) /\ IsCharBoundary(s, a) /\ IsCharBoundary(s, b)

DigitVal == [c \in {"0", "1", "2", "3", "4", "5", "6", "7", "8", "9"} |->
               CASE c = "0" -> 0 [] c = "1" -> 1 [] c = "2" -> 2 [] c = "3" -> 3
                 [] c = "4" -> 4 [] c = "5" -> 5 [] c = "6" -> 6 [] c = "7" -> 7
                 [] c = "8" -> 8 [] c = "9" -> 9]

\* The number a string of decimal digits denotes
RECURSIVE DecimalValue(_)
DecimalValue(s) ==
    IF s = <<>> THEN 0
    ELSE 10 * DecimalValue(SubSeq(s, 1, Len(s) - 1)) + DigitVal[s[Len(s)]]

ParseErr == [ok |-> FALSE, val |-> 0]

\* The digit loop of usize::from_str: checked multiply and add, Err on a
\* non-digit or on overflow.
RECURSIVE ParseDigits(_, _, _)
ParseDigits(s, i, acc) ==
    IF i > Len(s) THEN [ok |-> TRUE, val |-> acc]
    ELSE IF s[i] \notin DOMAIN DigitVal THEN ParseErr
    ELSE IF acc * 10 + DigitVal[s[i]] >= UsizeModulus THEN ParseErr
    ELSE ParseDigits(s, i + 1, acc * 10 + DigitVal[s[i]])

\* str::parse::<usize>: empty is an error, one leading "+" is accepted,
\* a lone sign is an error.
ParseUsize(s) ==
    IF Len(s) = 0 THEN ParseErr
    ELSE IF s[1] = "+" THEN (IF Len(s) = 1 THEN ParseErr ELSE ParseDigits(s, 2, 0))
    ELSE ParseDigits(s, 1, 0)

-----------------------------------------------------------------------------
(* EspUrcDetector::process *)

\* Mutant of PREFIX: the signature without its comma
PrefixNoComma == <<"+", "I", "P", "D">>

\* Mutant of PREFIX: the signature cut down to its first byte
PrefixPlusOnly == <<"+">>

PREFIX == <<"+", "I", "P", "D", ",">>

START == 5

PANIC == 0 - 1

\* Mutant of Incomplete: the buffer is cleared while waiting for more bytes
IncompleteClears(b) == [kind |-> "Incomplete", msg |-> <<>>, buf |-> <<>>]

Incomplete(b) == [kind |-> "Incomplete", msg |-> <<>>, buf |-> b]

NotHandled(b) == [kind |-> "NotHandled", msg |-> <<>>, buf |-> b]

Panicked(b) == [kind |-> "Panic", msg |-> <<>>, buf |-> b]

\* for i in 5..buf.len() - 1 { if &buf[i..i + 1] == ":" { end = i; break; } }
RECURSIVE ScanColon(_, _)
ScanColon(b, i) ==
    IF i >= Len(b) - 1 THEN START
    ELSE IF ~SliceOk(b, i, i + 1) THEN PANIC
    ELSE IF Bytes(b, i, i + 1) = <<":">> THEN i
    ELSE ScanColon(b, i + 1)

\* Mutant of Extract: a frame is complete only with one byte more than
\* total_length buffered
ExtractOffByOne(b, total_length) ==
    IF Len(b) <= total_length THEN [kind |-> "Incomplete", msg |-> <<>>, buf |-> b]
    ELSE [kind |-> "Complete",
          msg  |-> Bytes(b, 0, total_length),
          buf  |-> Bytes(b, total_length, Len(b))]

\* The length check and the extraction, for the computed total_length
Extract(b, total_length) ==
    IF Len(b) < total_length THEN Incomplete(b)
    ELSE IF ~SliceOk(b, 0, total_length) THEN Panicked(b)
    ELSE [kind |-> "Complete",
          msg  |-> Bytes(b, 0, total_length),
          buf  |-> Bytes(b, total_length, Len(b))]

\* process(&mut self, buf): the classification, the message and the buffer
\* it leaves.  checks: the build panics on integer overflow (otherwise the
\* sum wraps).
Process(b, checks) ==
    IF StartsWith(b, PREFIX) THEN
        LET end == ScanColon(b, START) IN
        IF end = PANIC THEN Panicked(b)
        ELSE IF end = START THEN Incomplete(b)
        ELSE IF ~SliceOk(b, START, end) THEN Panicked(b)
        ELSE
            LET length == ParseUsize(Bytes(b, START, end)) IN
            IF ~length.ok THEN Incomplete(b)
            ELSE IF end + 1 + length.val >= UsizeModulus THEN
                IF checks THEN Panicked(b)
                ELSE Extract(b, (end + 1 + length.val) % UsizeModulus)
            ELSE Extract(b, end + 1 + length.val)
    ELSE NotHandled(b)

-----------------------------------------------------------------------------
(* EspUrc::parse and NetworkData::from_urc *)

\* str::trim_start_matches(PREFIX): every leading repetition is removed
RECURSIVE TrimStartMatches(_, _)
TrimStartMatches(s, p) ==
    IF StartsWith(s, p) THEN TrimStartMatches(Bytes(s, Len(p), Len(s)), p) ELSE s

Min(S) == CHOOSE x \in S : \A y \in S : x <= y

\* str::find(c): 0-based index of the first c, or -1 for Option::None
Find(s, c) ==
    LET hits == {i \in 0..(Len(s) - 1) : At(s, i) = c} IN
    IF hits = {} THEN 0 - 1 ELSE Min(hits)

\* params.bytes().filter(|b| *b == b',').count()
CountByte(s, c) == Cardinality({i \in 1..Len(s) : s[i] = c})

\* params.split(',').next().unwrap(): the text before the first comma
FirstField(s) == IF Find(s, ",") < 0 THEN s ELSE Bytes(s, 0, Find(s, ","))

\* ConnectionId::try_from(&str): the ids "0".."4" of ConnectionId::as_at_str
ConnectionIdTryFrom(raw) ==
    IF raw \in {<<"0">>, <<"1">>, <<"2">>, <<"3">>, <<"4">>}
    THEN [kind |-> "Some", id |-> raw[1]]
    ELSE [kind |-> "Err"]

UrcErr == [kind |-> "Err", connection_id |-> None, data |-> <<>>]

NetworkData(id, data) == [kind |-> "NetworkData", connection_id |-> id, data |-> data]

\* str::split_at(index).1: the text from index on
SplitAtData(s, index) == Bytes(s, index, Len(s))

\* NetworkData::from_urc
FromUrc(u) ==
    IF ~StartsWith(u, PREFIX) THEN UrcErr
    ELSE
        LET t     == TrimStartMatches(u, PREFIX)
            index == Find(t, ":")
        IN
        IF index < 0 THEN UrcErr
        ELSE
            LET params == Bytes(t, 0, index)
                data   == SplitAtData(t, index)
                commas == CountByte(params, ",")
            IN
            IF commas \in {0, 2} THEN NetworkData(None, data)
            ELSE IF commas \in {1, 3} THEN
                LET id == ConnectionIdTryFrom(FirstField(params)) IN
                IF id.kind = "Err" THEN UrcErr ELSE NetworkData(id, data)
            ELSE UrcErr

\* <EspUrc as AtatUrc>::parse
EspUrcParse(u) ==
    IF StartsWith(u, PREFIX) THEN FromUrc(u)
    ELSE [kind |-> "Other", connection_id |-> None, data |-> u]

-----------------------------------------------------------------------------
(* The ingress side: bytes arrive, the engine calls process and check_urc *)

\* Five byte beginnings of the received stream
Heads == { <<"+", "I", "P", "D", ",">>,
           <<"+", "i", "p", "d", ",">>,
           <<"+", "I", "P", "D", ":">>,
           <<"+", "C", "U", "S", "T">> }

\* Characters received after a head (the buffer is a String: it grows by
\* whole characters)
TailChars == { <<"0">>, <<"1">>, <<"4">>, <<":">>, <<",">>, <<"xC3", "xA9">> }

HeadChars == { <<h[i]>> : h \in Heads, i \in 1..5 }

IsPrefixOf(s, t) == StartsWith(t, s)

CanReceive(b, ch) ==
    \/ \E h \in Heads : IsPrefixOf(b \o ch, h)
    \/ /\ \E h \in Heads : StartsWith(b, h)
       /\ ch \in TailChars
       /\ Len(b \o ch) <= 5 + (IF StartsWith(b, <<"+", "I", "P", "D", ",">>)
                                THEN MaxTail ELSE MaxOtherTail)

Init ==
    /\ build \in BOOLEAN
    /\ buf = <<>>
    /\ res = None
    /\ waiting = FALSE
    /\ overflowed = FALSE
    /\ urc = None
    /\ cmd = None
    /\ wire = None
    /\ decoded = None
    /\ joined = FALSE

\* The ingress manager appends a received character to the buffer
Receive(ch) ==
    /\ res.kind # "Panic"
    /\ CanReceive(buf, ch)
    /\ buf' = buf \o ch
    /\ res' = None
    /\ urc' = None
    /\ UNCHANGED <<build, waiting, overflowed, cmd, wire, decoded, joined>>

\* The device is in the middle of a frame: b holds "+IPD,<n>:" and fewer
\* than n payload bytes
MidFrame(b) ==
    /\ StartsWith(b, <<"+", "I", "P", "D", ",">>)
    /\ \E c \in 6..(Len(b) - 1) :
          /\ At(b, c) = ":"
          /\ \A i \in 5..(c - 1) : At(b, i) \in DOMAIN DigitVal
          /\ Len(b) < c + 1 + DecimalValue(Bytes(b, 5, c))

\* A payload character arrives that the buffer of MaxLen bytes has no room
\* for (MaxTail bounds what the device sends, but a frame is sent whole)
ReceiveFull(ch) ==
    /\ res.kind # "Panic"
    /\ MidFrame(buf)
    /\ ch \in TailChars
    /\ Len(buf \o ch) > 5 + MaxTail
    /\ overflowed' = TRUE
    /\ res' = None
    /\ urc' = None
    /\ UNCHANGED <<build, buf, waiting, cmd, wire, decoded, joined>>

\* The ingress manager digests: one call of EspUrcDetector::process
Digest ==
    /\ res.kind # "Panic"
    /\ LET r == Process(buf, build) IN
        /\ res' = [kind |-> r.kind, msg |-> r.msg, old |-> buf,
                   waited |-> waiting, repeated |-> res.kind # "None"]
        /\ buf' = r.buf
        /\ waiting' = (r.kind = "Incomplete")
        /\ overflowed' = (overflowed /\ r.kind # "Complete")
    /\ urc' = None
    /\ UNCHANGED <<build, cmd, wire, decoded, joined>>

\* EspClient::check_urc::<EspUrc> on the message process extracted
CheckUrc ==
    /\ res.kind = "Complete"
    /\ urc = None
    /\ urc' = EspUrcParse(res.msg)
    /\ UNCHANGED <<build, buf, res, waiting, overflowed, cmd, wire, decoded, joined>>

Next ==
    \/ \E ch \in HeadChars \cup TailChars : Receive(ch)
    \/ \E ch \in TailChars : ReceiveFull(ch)
    \/ Digest
    \/ CheckUrc

Spec == Init /\ [][Next]_vars

-----------------------------------------------------------------------------
(* Text helpers of the response decoders *)

\* core::str::from_utf8: is the byte sequence legal UTF-8, from index i on
RECURSIVE Utf8From(_, _)
Utf8From(s, i) ==
    IF i > Len(s) THEN TRUE
    ELSE
        LET v == ByteVal(s[i])
            Cont(k) == k <= Len(s) /\ IsContinuation(s[k])
        IN
        IF v < 128 THEN Utf8From(s, i + 1)
        ELSE IF v >= 194 /\ v <= 223 THEN Cont(i + 1) /\ Utf8From(s, i + 2)
        ELSE IF v >= 224 /\ v <= 239 THEN
            /\ Cont(i + 1) /\ Cont(i + 2)
            /\ (v = 224 => ByteVal(s[i + 1]) >= 160)
            /\ (v = 237 => ByteVal(s[i + 1]) < 160)
            /\ Utf8From(s, i + 3)
        ELSE IF v >= 240 /\ v <= 244 THEN
            /\ Cont(i + 1) /\ Cont(i + 2) /\ Cont(i + 3)
            /\ (v = 240 => ByteVal(s[i + 1]) >= 144)
            /\ (v = 244 => ByteVal(s[i + 1]) < 144)
            /\ Utf8From(s, i + 4)
        ELSE FALSE

FromUtf8Ok(s) == Utf8From(s, 1)

\* char::is_whitespace, for the ASCII bytes
IsWhitespace(b) == b \in {"SP", "TAB", "LF", "CR"}

RECURSIVE TrimStart(_)
TrimStart(s) ==
    IF s # <<>> /\ IsWhitespace(s[1]) THEN TrimStart(Tail(s)) ELSE s

RECURSIVE TrimEnd(_)
TrimEnd(s) ==
    IF s # <<>> /\ IsWhitespace(s[Len(s)]) THEN TrimEnd(SubSeq(s, 1, Len(s) - 1)) ELSE s

\* str::trim
Trim(s) == TrimEnd(TrimStart(s))

\* One line of str::lines: a trailing CR goes with the line ending
StripCr(l) == IF l # <<>> /\ l[Len(l)] = "CR" THEN SubSeq(l, 1, Len(l) - 1) ELSE l

\* str::lines: split at every LF, no empty line after a final LF, CR
\* before the line ending removed
RECURSIVE Lines(_)
Lines(s) ==
    IF s = <<>> THEN <<>>
    ELSE
        LET nl == Find(s, "LF") IN
        IF nl < 0 THEN <<StripCr(s)>>
        ELSE <<StripCr(Bytes(s, 0, nl))>> \o Lines(Bytes(s, nl + 1, Len(s)))

\* str::get(a..b): None (<<"none">>) when out of range or off a char boundary
StrGet(s, a, b) == IF SliceOk(s, a, b) THEN <<"some", Bytes(s, a, b)>> ELSE <<"none">>

-----------------------------------------------------------------------------
(* Results of AtatCmd::parse *)

Ok(v) == [kind |-> "Ok", value |-> v, error |-> "none"]

Err(e) == [kind |-> "Err", value |-> <<>>, error |-> e]

Panic == [kind |-> "Panic", value |-> <<>>, error |-> "none"]

\* The engine's response: Ok(bytes) or Err(&InternalError)
RespOk(bytes) == [ok |-> TRUE, bytes |-> bytes]

RespErr == [ok |-> FALSE, bytes |-> <<>>]

\* Capacity of the heapless strings of FirmwareVersion
FirmwareFieldCap == 32

\* String::from(&str) of a heapless string: panics above the capacity
FitsString(s, cap) == Len(s) <= cap

\* The parse bodies shared by At, Restart and SetWifiMode:
\* from_utf8(resp?).unwrap(), then trim().is_empty()
ParseEmptyBody(resp) ==
    IF ~resp.ok THEN Err("Internal")
    ELSE IF ~FromUtf8Ok(resp.bytes) THEN Panic
    ELSE IF Trim(resp.bytes) # <<>> THEN Err("InvalidResponse")
    ELSE Ok("EmptyResponse")

\* The parse bodies that ignore their argument (ListAccessPoints,
\* EstablishConnection, PrepareSendData, SendData, CloseConnection)
ParseIgnoring(resp) == Ok("EmptyResponse")

AT_VERSION == <<"A", "T", "SP", "v", "e", "r", "s", "i", "o", "n", ":">>

SDK_VERSION == <<"S", "D", "K", "SP", "v", "e", "r", "s", "i", "o", "n", ":">>

COMPILE_TIME == <<"c", "o", "m", "p", "i", "l", "e", "SP", "t", "i", "m", "e", ":">>

\* GetFirmwareVersion::parse without the check of the third prefix
ParseFirmwareVersionAnyThird(resp) ==
    IF ~resp.ok THEN Err("Internal")
    ELSE IF ~FromUtf8Ok(resp.bytes) THEN Panic
    ELSE
        LET lines == Lines(resp.bytes) IN
        IF Len(lines) < 1 THEN Err("Parse")
        ELSE IF ~StartsWith(lines[1], AT_VERSION) THEN Err("Parse")
        ELSE IF ~SliceOk(lines[1], 11, Len(lines[1])) THEN Panic
        ELSE IF Len(lines) < 2 THEN Err("Parse")
        ELSE IF ~StartsWith(lines[2], SDK_VERSION) THEN Err("Parse")
        ELSE IF ~SliceOk(lines[2], 12, Len(lines[2])) THEN Panic
        ELSE IF Len(lines) < 3 THEN Err("Parse")
        ELSE IF ~SliceOk(lines[3], 13, Len(lines[3])) THEN Panic
        ELSE
            LET at_version   == Bytes(lines[1], 11, Len(lines[1]))
                sdk_version  == Bytes(lines[2], 12, Len(lines[2]))
                compile_time == Bytes(lines[3], 13, Len(lines[3]))
            IN
            IF \/ ~FitsString(at_version, FirmwareFieldCap)
               \/ ~FitsString(sdk_version, FirmwareFieldCap)
               \/ ~FitsString(compile_time, FirmwareFieldCap)
            THEN Panic
            ELSE Ok([at_version |-> at_version, sdk_version |-> sdk_version,
                     compile_time |-> compile_time])

\* GetFirmwareVersion::parse
ParseFirmwareVersion(resp) ==
    IF ~resp.ok THEN Err("Internal")
    ELSE IF ~FromUtf8Ok(resp.bytes) THEN Panic
    ELSE
        LET lines == Lines(resp.bytes) IN
        IF Len(lines) < 1 THEN Err("Parse")
        ELSE IF ~StartsWith(lines[1], AT_VERSION) THEN Err("Parse")
        ELSE IF ~SliceOk(lines[1], 11, Len(lines[1])) THEN Panic
        ELSE IF Len(lines) < 2 THEN Err("Parse")
        ELSE IF ~StartsWith(lines[2], SDK_VERSION) THEN Err("Parse")
        ELSE IF ~SliceOk(lines[2], 12, Len(lines[2])) THEN Panic
        ELSE IF Len(lines) < 3 THEN Err("Parse")
        ELSE IF ~StartsWith(lines[3], COMPILE_TIME) THEN Err("Parse")
        ELSE IF ~SliceOk(lines[3], 13, Len(lines[3])) THEN Panic
        ELSE
            LET at_version   == Bytes(lines[1], 11, Len(lines[1]))
                sdk_version  == Bytes(lines[2], 12, Len(lines[2]))
                compile_time == Bytes(lines[3], 13, Len(lines[3]))
            IN
            IF \/ ~FitsString(at_version, FirmwareFieldCap)
               \/ ~FitsString(sdk_version, FirmwareFieldCap)
               \/ ~FitsString(compile_time, FirmwareFieldCap)
            THEN Panic
            ELSE Ok([at_version |-> at_version, sdk_version |-> sdk_version,
                     compile_time |-> compile_time])

CWMODE_CUR == <<"+", "C", "W", "M", "O", "D", "E", "_", "C", "U", "R", ":">>

CWMODE_DEF == <<"+", "C", "W", "M", "O", "D", "E", "_", "D", "E", "F", ":">>

\* GetCurrentWifiMode::parse and GetDefaultWifiMode::parse, for their prefix
ParseWifiMode(resp, prefix) ==
    IF ~resp.ok THEN Err("Internal")
    ELSE IF ~FromUtf8Ok(resp.bytes) THEN Panic
    ELSE IF ~StartsWith(resp.bytes, prefix) THEN Err("InvalidResponse")
    ELSE
        LET code == StrGet(resp.bytes, 12, 13) IN
        IF code = <<"some", <<"1">>>> THEN Ok("Station")
        ELSE IF code = <<"some", <<"2">>>> THEN Ok("Ap")
        ELSE IF code = <<"some", <<"3">>>> THEN Ok("Both")
        ELSE Err("InvalidResponse")

WIFI_DISCONNECTED == <<"W", "I", "F", "I", "SP", "D", "I", "S", "C", "O", "N", "N", "E", "C", "T", "E", "D">>

WIFI_CONNECTED == <<"W", "I", "F", "I", "SP", "C", "O", "N", "N", "E", "C", "T", "E", "D">>

WIFI_GOT_IP == <<"W", "I", "F", "I", "SP", "G", "O", "T", "SP", "I", "P">>

\* The for loop of JoinAccessPoint::parse over the lines from i on
RECURSIVE JoinFold(_, _, _)
JoinFold(lines, i, response) ==
    IF i > Len(lines) THEN response
    ELSE IF lines[i] = WIFI_DISCONNECTED
        THEN JoinFold(lines, i + 1, [response EXCEPT !.connected = FALSE])
    ELSE IF lines[i] = WIFI_CONNECTED
        THEN JoinFold(lines, i + 1, [response EXCEPT !.connected = TRUE])
    ELSE IF lines[i] = WIFI_GOT_IP
        THEN JoinFold(lines, i + 1, [response EXCEPT !.got_ip = TRUE])
    ELSE JoinFold(lines, i + 1, response)

\* JoinAccessPoint::parse with a response that starts out connected
ParseJoinStartsConnected(resp) ==
    IF ~resp.ok THEN Err("Internal")
    ELSE IF ~FromUtf8Ok(resp.bytes) THEN Panic
    ELSE Ok(JoinFold(Lines(resp.bytes), 1, [connected |-> TRUE, got_ip |-> FALSE]))

\* JoinAccessPoint::parse
ParseJoin(resp) ==
    IF ~resp.ok THEN Err("Internal")
    ELSE IF ~FromUtf8Ok(resp.bytes) THEN Panic
    ELSE Ok(JoinFold(Lines(resp.bytes), 1, [connected |-> FALSE, got_ip |-> FALSE]))

STATUS == <<"S", "T", "A", "T", "U", "S", ":">>

\* GetConnectionStatus::parse
ParseConnectionStatus(resp) ==
    IF ~resp.ok THEN Err("Internal")
    ELSE IF ~FromUtf8Ok(resp.bytes) THEN Panic
    ELSE IF ~StartsWith(resp.bytes, STATUS) THEN Err("InvalidResponse")
    ELSE
        LET code == StrGet(resp.bytes, 7, 8) IN
        IF code = <<"some", <<"2">>>> THEN Ok("ConnectedToAccessPoint")
        ELSE IF code = <<"some", <<"3">>>> THEN Ok("InTransmission")
        ELSE IF code = <<"some", <<"4">>>> THEN Ok("TransmissionEnded")
        ELSE IF code = <<"some", <<"5">>>> THEN Ok("Disconnected")
        ELSE IF code[1] = "some" THEN
            \* other.parse::<u8>() of a one byte text
            IF code[2][1] \in DOMAIN DigitVal
            THEN Ok(<<"Other", DigitVal[code[2][1]]>>)
            ELSE Err("Parse")
        ELSE Err("InvalidResponse")

\* Split at every "." (str::split)
RECURSIVE SplitDots(_)
SplitDots(s) ==
    LET dot == Find(s, ".") IN
    IF dot < 0 THEN <<s>>
    ELSE <<Bytes(s, 0, dot)>> \o SplitDots(Bytes(s, dot + 1, Len(s)))

\* One octet of a dotted quad: one to three digits, at most 255
IsOctet(s) ==
    /\ Len(s) >= 1 /\ Len(s) <= 3
    /\ \A i \in 1..Len(s) : s[i] \in DOMAIN DigitVal
    /\ DecimalValue(s) <= 255

\* <Ipv4Addr as FromStr>::from_str succeeds: four octets separated by dots
Ipv4Ok(s) ==
    LET parts == SplitDots(s) IN
    Len(parts) = 4 /\ \A i \in 1..4 : IsOctet(parts[i])

CIFSR_STAIP == <<"+", "C", "I", "F", "S", "R", ":", "S", "T", "A", "I", "P", ",">>

CIFSR_STAMAC == <<"+", "C", "I", "F", "S", "R", ":", "S", "T", "A", "M", "A", "C", ",">>

\* <Ipv4Addr as FromStr>::from_str: the four octets of a dotted quad
Ipv4Parse(s) == [i \in 1..4 |-> DecimalValue(SplitDots(s)[i])]

\* A literal for "no address" that is cut short
ZeroIpShort == <<"0", ".", "0">>

ZERO_IP == <<"0", ".", "0", ".", "0", ".", "0">>

\* The for loop of GetLocalAddress::parse over the lines from i on; st holds
\* ip and mac (<<"none">> or <<"some", text>>) and whether it failed
RECURSIVE AddressFold(_, _, _)
AddressFold(lines, i, st) ==
    IF i > Len(lines) THEN st
    ELSE
        LET line == lines[i] IN
        IF StartsWith(line, CIFSR_STAIP) THEN
            IF ~SliceOk(line, 14, Len(line) - 1) THEN [st EXCEPT !.out = "Panic"]
            ELSE
                LET ip_raw == Bytes(line, 14, Len(line) - 1) IN
                IF ip_raw = ZERO_IP
                    THEN AddressFold(lines, i + 1, [st EXCEPT !.ip = <<"none">>])
                ELSE IF ~Ipv4Ok(ip_raw) THEN [st EXCEPT !.out = "Parse"]
                ELSE AddressFold(lines, i + 1,
                                 [st EXCEPT !.ip = <<"some", Ipv4Parse(ip_raw)>>])
        ELSE IF StartsWith(line, CIFSR_STAMAC) THEN
            IF ~SliceOk(line, 15, 32) THEN [st EXCEPT !.out = "Panic"]
            ELSE AddressFold(lines, i + 1,
                             [st EXCEPT !.mac = <<"some", Bytes(line, 15, 32)>>])
        ELSE AddressFold(lines, i + 1, st)

\* GetLocalAddress::parse
ParseLocalAddress(resp) ==
    IF ~resp.ok THEN Err("Internal")
    ELSE IF ~FromUtf8Ok(resp.bytes) THEN Panic
    ELSE
        LET st == AddressFold(Lines(resp.bytes), 1,
                              [ip |-> <<"none">>, mac |-> <<"none">>, out |-> "ok"])
        IN
        IF st.out = "Panic" THEN Panic
        ELSE IF st.out = "Parse" THEN Err("Parse")
        ELSE IF st.mac = <<"none">> THEN Err("Parse")
        ELSE Ok([ip |-> st.ip, mac |-> st.mac[2]])

\* The commands of the catalog
Commands ==
    { "At", "GetFirmwareVersion", "Restart", "GetCurrentWifiMode",
      "GetDefaultWifiMode", "SetWifiMode", "ListAccessPoints", "JoinAccessPoint",
      "GetConnectionStatus", "GetLocalAddress", "EstablishConnection",
      "PrepareSendData", "SendData", "CloseConnection" }

\* <T as AtatCmd>::parse for the command c
Parse(c, resp) ==
    CASE c \in {"At", "Restart", "SetWifiMode"} -> ParseEmptyBody(resp)
      [] c = "GetFirmwareVersion" -> ParseFirmwareVersion(resp)
      [] c = "GetCurrentWifiMode" -> ParseWifiMode(resp, CWMODE_CUR)
      [] c = "GetDefaultWifiMode" -> ParseWifiMode(resp, CWMODE_DEF)
      [] c = "JoinAccessPoint" -> ParseJoin(resp)
      [] c = "GetConnectionStatus" -> ParseConnectionStatus(resp)
      [] c = "GetLocalAddress" -> ParseLocalAddress(resp)
      [] c \in {"ListAccessPoints", "EstablishConnection", "PrepareSendData",
                "SendData", "CloseConnection"} -> ParseIgnoring(resp)

-----------------------------------------------------------------------------
(* The command encoders: <T as AtatCmd>::as_bytes *)

DigitChars == <<"0", "1", "2", "3", "4", "5", "6", "7", "8", "9">>

\* NumToA::numtoa_str(10, ..): the decimal text of an unsigned number
RECURSIVE NumToA(_)
NumToA(n) ==
    IF n < 10 THEN <<DigitChars[n + 1]>>
    ELSE NumToA(n \div 10) \o <<DigitChars[(n % 10) + 1]>>

\* types::ConnectionId: Zero .. Four
ConnectionIds == 0..4

ConnectionIdAtStr(id) == <<DigitChars[id + 1]>>

\* types::MultiplexingType
NonMultiplexed == [tag |-> "NonMultiplexed"]

Multiplexed(id) == [tag |-> "Multiplexed", id |-> id]

MuxTypes == {NonMultiplexed} \cup {Multiplexed(id) : id \in ConnectionIds}

\* types::WifiMode
WifiModes == {"Station", "Ap", "Both"}

WifiModeAtStr(m) ==
    CASE m = "Station" -> <<"1">>
      [] m = "Ap" -> <<"2">>
      [] m = "Both" -> <<"3">>

\* types::Protocol
Protocols == {"Tcp", "Udp"}

ProtocolAtStr(p) ==
    CASE p = "Tcp" -> <<"T", "C", "P">>
      [] p = "Udp" -> <<"U", "D", "P">>

PersistStr(persist) == IF persist THEN <<"D", "E", "F">> ELSE <<"C", "U", "R">>

CRLF == <<"CR", "LF">>

\* The octets of an address joined by "."
DottedQuad(ip) ==
    NumToA(ip[1]) \o <<".">> \o NumToA(ip[2]) \o <<".">> \o
    NumToA(ip[3]) \o <<".">> \o NumToA(ip[4])

\* The bytes as_bytes writes for the command value c, were the vector large
\* enough
Encode(c) ==
    CASE c.kind = "At" -> <<"A", "T", "CR", "LF">>
      [] c.kind = "GetFirmwareVersion" -> <<"A", "T", "+", "G", "M", "R", "CR", "LF">>
      [] c.kind = "Restart" -> <<"A", "T", "+", "R", "S", "T", "CR", "LF">>
      [] c.kind = "GetCurrentWifiMode" -> <<"A", "T", "+", "C", "W", "M", "O", "D", "E", "_", "C", "U", "R", "?", "CR", "LF">>
      [] c.kind = "GetDefaultWifiMode" -> <<"A", "T", "+", "C", "W", "M", "O", "D", "E", "_", "D", "E", "F", "?", "CR", "LF">>
      [] c.kind = "SetWifiMode" ->
            <<"A", "T", "+", "C", "W", "M", "O", "D", "E", "_">> \o PersistStr(c.persist) \o <<"=">> \o
            WifiModeAtStr(c.mode) \o CRLF
      [] c.kind = "ListAccessPoints" -> <<"A", "T", "+", "C", "W", "L", "A", "P", "CR", "LF">>
      [] c.kind = "JoinAccessPoint" ->
            <<"A", "T", "+", "C", "W", "J", "A", "P", "_">> \o PersistStr(c.persist) \o <<"=", "QUOTE">> \o
            c.ssid \o <<"QUOTE", ",", "QUOTE">> \o c.psk \o <<"QUOTE">> \o CRLF
      [] c.kind = "GetConnectionStatus" -> <<"A", "T", "+", "C", "I", "P", "S", "T", "A", "T", "U", "S", "CR", "LF">>
      [] c.kind = "GetLocalAddress" -> <<"A", "T", "+", "C", "I", "F", "S", "R", "CR", "LF">>
      [] c.kind = "EstablishConnection" ->
            <<"A", "T", "+", "C", "I", "P", "S", "T", "A", "R", "T", "=">> \o
            (IF c.mux.tag = "Multiplexed"
             THEN ConnectionIdAtStr(c.mux.id) \o <<",">> ELSE <<>>) \o
            <<"QUOTE">> \o ProtocolAtStr(c.protocol) \o <<"QUOTE", ",">> \o
            <<"QUOTE">> \o DottedQuad(c.ip) \o
            <<"QUOTE", ",">> \o NumToA(c.port) \o CRLF
      [] c.kind = "PrepareSendData" ->
            <<"A", "T", "+", "C", "I", "P", "S", "E", "N", "D", "=">> \o
            (IF c.mux.tag = "Multiplexed"
             THEN ConnectionIdAtStr(c.mux.id) \o <<",">> ELSE <<>>) \o
            NumToA(c.length) \o CRLF
      [] c.kind = "SendData" -> c.data
      [] c.kind = "CloseConnection" ->
            <<"A", "T", "+", "C", "I", "P", "C", "L", "O", "S", "E">> \o
            (IF c.mux.tag = "Multiplexed"
             THEN <<"=">> \o ConnectionIdAtStr(c.mux.id) ELSE <<>>) \o
            CRLF

\* The capacity L of the SendData value
SendDataLen == 72

\* <T as AtatCmd>::CommandLen: the capacity of the vector as_bytes fills
CommandLen(kind) ==
    CASE kind = "At" -> 4
      [] kind = "GetFirmwareVersion" -> 8
      [] kind = "Restart" -> 8
      [] kind = "GetCurrentWifiMode" -> 16
      [] kind = "GetDefaultWifiMode" -> 16
      [] kind = "SetWifiMode" -> 17
      [] kind = "ListAccessPoints" -> 10
      [] kind = "JoinAccessPoint" -> 116
      [] kind = "GetConnectionStatus" -> 14
      [] kind = "GetLocalAddress" -> 10
      [] kind = "EstablishConnection" -> 42
      [] kind = "PrepareSendData" -> 20
      [] kind = "SendData" -> SendDataLen
      [] kind = "CloseConnection" -> 15

\* as_bytes: a write beyond the capacity of the vector is an Err that the
\* unwrap turns into a panic
AsBytes(c) ==
    IF Len(Encode(c)) > CommandLen(c.kind)
    THEN [kind |-> "Panic", bytes |-> <<>>]
    ELSE [kind |-> "Ok", bytes |-> Encode(c)]

\* <T as AtatCmd>::max_timeout_ms, for the commands that declare one
DeclaresTimeout(kind) ==
    kind \in { "ListAccessPoints", "JoinAccessPoint", "EstablishConnection",
               "PrepareSendData", "SendData", "CloseConnection" }

\* max_timeout_ms with a digit short for JoinAccessPoint
MaxTimeoutMsJoinShort(kind) ==
    CASE kind = "ListAccessPoints" -> 10000
      [] kind = "JoinAccessPoint" -> 2500
      [] kind = "EstablishConnection" -> 30000
      [] kind = "PrepareSendData" -> 5000
      [] kind = "SendData" -> 30000
      [] kind = "CloseConnection" -> 5000

MaxTimeoutMs(kind) ==
    CASE kind = "ListAccessPoints" -> 10000
      [] kind = "JoinAccessPoint" -> 25000
      [] kind = "EstablishConnection" -> 30000
      [] kind = "PrepareSendData" -> 5000
      [] kind = "SendData" -> 30000
      [] kind = "CloseConnection" -> 5000

\* The capacities of the ssid and psk fields of JoinAccessPoint
SsidCap == 32

PskCap == 64

\* A text of n bytes
Fill(n) == [i \in 1..n |-> "a"]

Ssids == {Fill(0), Fill(SsidCap)}

Psks == {Fill(0), Fill(PskCap)}

\* Remote addresses and ports, lengths and payloads the caller passes
Addresses == { <<0, 0, 0, 0>>, <<255, 255, 255, 255>> }

Ports == {0, 65535}

Lengths == {0, 65535}

Payloads == { <<>>, <<"h", "i">> }

\* The command values a caller can construct
CommandValues ==
    { [kind |-> k] : k \in { "At", "GetFirmwareVersion", "Restart",
                             "GetCurrentWifiMode", "GetDefaultWifiMode",
                             "ListAccessPoints", "GetConnectionStatus",
                             "GetLocalAddress" } }
    \cup { [kind |-> "SetWifiMode", mode |-> m, persist |-> p] :
             m \in WifiModes, p \in BOOLEAN }
    \cup { [kind |-> "JoinAccessPoint", ssid |-> s, psk |-> k, persist |-> p] :
             s \in Ssids, k \in Psks, p \in BOOLEAN }
    \cup { [kind |-> "EstablishConnection", mux |-> m, protocol |-> t,
            ip |-> a, port |-> n] :
             m \in MuxTypes, t \in Protocols, a \in Addresses, n \in Ports }
    \cup { [kind |-> "PrepareSendData", mux |-> m, length |-> n] :
             m \in MuxTypes, n \in Lengths }
    \cup { [kind |-> "SendData", data |-> d] : d \in Payloads }
    \cup { [kind |-> "CloseConnection", mux |-> m] : m \in MuxTypes }

-----------------------------------------------------------------------------
(* The command side: a command is sent, the engine hands its parse the
   response bytes or the error indicator *)

\* Response bodies the device is made to send
ResponseBodies ==
    { <<>>,
      <<"CR", "LF">>,
      <<"x">>,
      <<"xFF">>,
      <<"O", "xC3">>,
      <<"xC3", "xA9">>,
      <<"A", "T", "SP", "v", "e", "r", "s", "i", "o", "n", ":", "1", "CR", "LF", "S", "D", "K", "SP", "v", "e", "r", "s", "i", "o", "n", ":", "2", "CR", "LF", "c", "o", "m", "p", "i", "l", "e", "SP", "t", "i", "m", "e", ":", "3">>,
      <<"A", "T", "SP", "v", "e", "r", "s", "i", "o", "n", ":", "1", "CR", "LF", "S", "D", "K", "SP", "v", "e", "r", "s", "i", "o", "n", ":", "2">>,
      <<"A", "T", "SP", "v", "e", "r", "s", "i", "o", "n", ":", "1", "CR", "LF", "c", "o", "m", "p", "i", "l", "e", "SP", "t", "i", "m", "e", ":", "3", "CR", "LF", "S", "D", "K", "SP", "v", "e", "r", "s", "i", "o", "n", ":", "2">>,
      <<"+", "C", "W", "M", "O", "D", "E", "_", "C", "U", "R", ":", "1">>,
      <<"+", "C", "W", "M", "O", "D", "E", "_", "C", "U", "R", ":", "9">>,
      <<"+", "C", "W", "M", "O", "D", "E", "_", "D", "E", "F", ":", "2">>,
      <<"+", "C", "W", "M", "O", "D", "E", "_", "D", "E", "F", ":">>,
      <<"S", "T", "A", "T", "U", "S", ":", "2">>,
      <<"S", "T", "A", "T", "U", "S", ":", "7">>,
      <<"S", "T", "A", "T", "U", "S", ":", "x">>,
      <<"S", "T", "A", "T", "U", "S", ":">>,
      <<"W", "I", "F", "I", "SP", "C", "O", "N", "N", "E", "C", "T", "E", "D", "CR", "LF", "W", "I", "F", "I", "SP", "G", "O", "T", "SP", "I", "P">>,
      <<"W", "I", "F", "I", "SP", "C", "O", "N", "N", "E", "C", "T", "E", "D", "CR", "LF", "W", "I", "F", "I", "SP", "D", "I", "S", "C", "O", "N", "N", "E", "C", "T", "E", "D">>,
      <<"W", "I", "F", "I", "SP", "D", "I", "S", "C", "O", "N", "N", "E", "C", "T", "E", "D", "CR", "LF", "W", "I", "F", "I", "SP", "C", "O", "N", "N", "E", "C", "T", "E", "D", "CR", "LF">>,
      <<"+", "C", "I", "F", "S", "R", ":", "S", "T", "A", "I", "P", ",", "QUOTE", "0", ".", "0", ".", "0", ".", "0", "QUOTE", "CR", "LF", "+", "C", "I", "F", "S", "R", ":", "S", "T", "A", "M", "A", "C", ",", "QUOTE", "d", "c", ":", "4", "f", ":", "2", "2", ":", "7", "e", ":", "4", "1", ":", "b", "4", "QUOTE">>,
      <<"+", "C", "I", "F", "S", "R", ":", "S", "T", "A", "M", "A", "C", ",", "QUOTE", "d", "c", ":", "4", "f", ":", "2", "2", ":", "7", "e", ":", "4", "1", ":", "b", "4", "QUOTE", "CR", "LF", "+", "C", "I", "F", "S", "R", ":", "S", "T", "A", "I", "P", ",", "QUOTE", "1", "0", ".", "0", ".", "9", "9", ".", "1", "6", "4", "QUOTE">>,
      <<"+", "C", "I", "F", "S", "R", ":", "S", "T", "A", "M", "A", "C", ",", "QUOTE", "d", "c", ":", "4", "f", ":", "2", "2", ":", "7", "e", ":", "4", "1", ":", "b", "4", "QUOTE">>,
      <<"+", "C", "I", "F", "S", "R", ":", "S", "T", "A", "I", "P", ",", "QUOTE", "1", "0", ".", "0", ".", "9", "9", ".", "1", "6", "4", "QUOTE">>,
      <<"+", "C", "I", "F", "S", "R", ":", "S", "T", "A", "I", "P", ",", "QUOTE", "1", "0", ".", "0", ".", "9", "9", "9", ".", "1", "QUOTE", "CR", "LF", "+", "C", "I", "F", "S", "R", ":", "S", "T", "A", "M", "A", "C", ",", "QUOTE", "d", "c", ":", "4", "f", ":", "2", "2", ":", "7", "e", ":", "4", "1", ":", "b", "4", "QUOTE">>,
      <<"+", "C", "I", "F", "S", "R", ":", "S", "T", "A", "I", "P", ",">>,
      <<"+", "C", "I", "F", "S", "R", ":", "S", "T", "A", "M", "A", "C", ",", "QUOTE", "d", "c", ":", "4", "f", "QUOTE">>,
      <<"A", "T", "SP", "v", "e", "r", "s", "i", "o", "n", ":", "1", "2", "3", "4", "5", "6", "7", "8", "9", "0", "1", "2", "3", "4", "5", "6", "7", "8", "9", "0", "1", "2", "3", "4", "5", "6", "7", "8", "9", "0", "1", "2", "3", "CR", "LF", "S", "D", "K", "SP", "v", "e", "r", "s", "i", "o", "n", ":", "2", "CR", "LF", "c", "o", "m", "p", "i", "l", "e", "SP", "t", "i", "m", "e", ":", "3">> }

\* Lines joined by CR LF
RECURSIVE JoinLines(_)
JoinLines(ls) ==
    IF ls = <<>> THEN <<>>
    ELSE IF Len(ls) = 1 THEN ls[1]
    ELSE ls[1] \o <<"CR", "LF">> \o JoinLines(Tail(ls))

\* The IP line of a +CIFSR response: absent, an address, or a text that is
\* no address
IpCases ==
    { [kind |-> "none"] }
    \cup { [kind |-> "addr", octets |-> a] : a \in Addresses }
    \cup { [kind |-> "bad", text |-> t] :
             t \in { <<"1", "0", ".", "0", ".", "9", "9", "9", ".", "1">>, <<"1", "0", ".", "0", ".", "9", "9">> } }

IpText(c) == IF c.kind = "addr" THEN DottedQuad(c.octets) ELSE c.text

MacTexts == { <<"d", "c", ":", "4", "f", ":", "2", "2", ":", "7", "e", ":", "4", "1", ":", "b", "4">> }

\* The MAC line of a +CIFSR response: absent or a 17 character address
MacCases == { [kind |-> "none"] } \cup { [kind |-> "mac", text |-> m] : m \in MacTexts }

\* Well-formed +CIFSR responses: which lines they hold, in which order
AddressCases == [ip : IpCases, mac : MacCases, mac_first : BOOLEAN]

AddressLines(k) ==
    LET ipl == IF k.ip.kind = "none" THEN <<>>
               ELSE <<CIFSR_STAIP \o <<"QUOTE">> \o IpText(k.ip) \o <<"QUOTE">> >>
        macl == IF k.mac.kind = "none" THEN <<>>
                ELSE <<CIFSR_STAMAC \o <<"QUOTE">> \o k.mac.text \o <<"QUOTE">> >>
    IN IF k.mac_first THEN macl \o ipl ELSE ipl \o macl

AddressBody(k) == JoinLines(AddressLines(k))

AddressBodies == { AddressBody(k) : k \in AddressCases }

\* The lines of a response to JoinAccessPoint: the three markers and a line
\* that is none of them
JoinLineKinds == {"DISCONNECTED", "CONNECTED", "GOT_IP", "OTHER"}

JoinLineText(k) ==
    CASE k = "DISCONNECTED" -> WIFI_DISCONNECTED
      [] k = "CONNECTED" -> WIFI_CONNECTED
      [] k = "GOT_IP" -> WIFI_GOT_IP
      [] k = "OTHER" -> <<"W", "I", "F", "I", "SP", "C", "O", "N", "N", "E", "C", "T", "E", "D", "SP">>

\* Responses to JoinAccessPoint: which lines they hold, in which order
JoinCases == UNION { [1..n -> JoinLineKinds] : n \in 0..MaxJoinLines }

JoinBody(ks) == JoinLines([i \in 1..Len(ks) |-> JoinLineText(ks[i])])

JoinBodies == { JoinBody(ks) : ks \in JoinCases }

\* The lines of a response to GetFirmwareVersion
FirmwareLineKinds == {"AT", "SDK", "COMPILE"}

FirmwarePrefix(k) ==
    CASE k = "AT" -> AT_VERSION
      [] k = "SDK" -> SDK_VERSION
      [] k = "COMPILE" -> COMPILE_TIME

\* What follows the prefix in a line
FirmwareRemainder(k) ==
    CASE k = "AT" -> <<"1", ".", "1">>
      [] k = "SDK" -> <<"1", ".", "5", "(", "b", ")">>
      [] k = "COMPILE" -> <<"M", "a", "y", "SP", "2", "0">>

\* Responses to GetFirmwareVersion: which lines they hold, in which order
FirmwareCases == UNION { [1..n -> FirmwareLineKinds] : n \in 0..MaxFirmwareLines }

FirmwareBody(ks) ==
    JoinLines([i \in 1..Len(ks) |-> FirmwarePrefix(ks[i]) \o FirmwareRemainder(ks[i])])

FirmwareBodies == { FirmwareBody(ks) : ks \in FirmwareCases }

Responses ==
    {RespErr} \cup
    {RespOk(b) : b \in ResponseBodies \cup AddressBodies \cup JoinBodies
                        \cup FirmwareBodies}

\* EspClient::send_command: a new exchange starts, the engine takes the
\* bytes and the timeout of the command
Send(c) ==
    /\ cmd.kind = "None"
    /\ cmd' = c
    /\ wire' = [kind |-> AsBytes(c).kind, bytes |-> AsBytes(c).bytes,
                declared |-> DeclaresTimeout(c.kind),
                timeout_ms |-> IF DeclaresTimeout(c.kind)
                               THEN MaxTimeoutMs(c.kind) ELSE 0]
    /\ decoded' = None
    /\ UNCHANGED <<build, buf, res, waiting, overflowed, urc, joined>>

\* The engine hands the response to the command's parse
Respond(r) ==
    /\ cmd.kind # "None"
    /\ wire.kind = "Ok"
    /\ decoded.kind = "None"
    /\ LET d == Parse(cmd.kind, r) IN
        /\ decoded' = [kind |-> d.kind, value |-> d.value, error |-> d.error,
                       resp |-> r]
        /\ joined' = (joined \/ (cmd.kind = "JoinAccessPoint" /\ d.kind = "Ok"
                                     /\ d.value.connected))
    /\ UNCHANGED <<build, buf, res, waiting, overflowed, urc, cmd, wire>>

\* EspClient::send_command returns the decoded result to its caller
Return ==
    /\ decoded.kind \in {"Ok", "Err"}
    /\ cmd' = None
    /\ wire' = None
    /\ decoded' = None
    /\ UNCHANGED <<build, buf, res, waiting, overflowed, urc, joined>>

CmdNext ==
    \/ \E c \in CommandValues : Send(c)
    \/ \E r \in Responses : Respond(r)
    \/ Return

CmdSpec == Init /\ [][CmdNext]_vars

-----------------------------------------------------------------------------
(* Vocabulary of the properties *)

IsDigit(c) == c \in {"0", "1", "2", "3", "4", "5", "6", "7", "8", "9"}

AllDigits(s) == \A i \in 1..Len(s) : IsDigit(s[i])

\* The number a string of decimal digits denotes
RECURSIVE Decimal(_)
Decimal(s) ==
    IF s = <<>> THEN 0
    ELSE 10 * Decimal(SubSeq(s, 1, Len(s) - 1)) + DigitVal[s[Len(s)]]

\* b begins with the five bytes "+IPD,"
BeginsWithIpd(b) ==
    /\ Len(b) >= 5
    /\ b[1] = "+" /\ b[2] = "I" /\ b[3] = "P" /\ b[4] = "D" /\ b[5] = ","

\* Offset c of the colon that ends the header (-1: no colon buffered)
ColonOffset(b) == Find(b, ":")

\* b is "+IPD," <digits> ":" ...
HasLengthHeader(b) ==
    /\ BeginsWithIpd(b)
    /\ ColonOffset(b) > 5
    /\ AllDigits(Bytes(b, 5, ColonOffset(b)))

\* The declared length n
DeclaredLength(b) == Decimal(Bytes(b, 5, ColonOffset(b)))

\* c + 1 + n
FrameLength(b) == ColonOffset(b) + 1 + DeclaredLength(b)

\* b is exactly one non-multiplexed frame "+IPD,<n>:<n payload bytes>"
IsFrame(b) == HasLengthHeader(b) /\ Len(b) = FrameLength(b)

\* The payload of a frame: what follows the colon
Payload(b) == Bytes(b, ColonOffset(b) + 1, Len(b))

\* b is exactly one multiplexed frame "+IPD,<id>,<n>:<n payload bytes>", n >= 1
IsMuxFrame(b) ==
    /\ BeginsWithIpd(b)
    /\ ColonOffset(b) > 7
    /\ At(b, 5) \in {"0", "1", "2", "3", "4"}
    /\ At(b, 6) = ","
    /\ AllDigits(Bytes(b, 7, ColonOffset(b)))
    /\ Decimal(Bytes(b, 7, ColonOffset(b))) >= 1
    /\ Len(b) = ColonOffset(b) + 1 + Decimal(Bytes(b, 7, ColonOffset(b)))

\* process has been called since the last byte arrived
Called == res.kind # "None"

\* The buffer the ingress manager can hold (MaxLen), in the model's scale
Capacity == START + MaxTail

\* b holds "+IPD," and is a proper prefix of a frame with a non-empty
\* payload that fits the buffer
IsFramePrefix(b) ==
    /\ BeginsWithIpd(b)
    /\ \/ AllDigits(Bytes(b, 5, Len(b)))
       \/ /\ HasLengthHeader(b)
          /\ DeclaredLength(b) >= 1
          /\ Len(b) < FrameLength(b)
          /\ FrameLength(b) <= Capacity

-----------------------------------------------------------------------------
(* Properties of the framer *)

\* C1: for a buffer "+IPD,<n>:..." with the colon at offset c, process
\* answers Incomplete exactly when fewer than c + 1 + n bytes are buffered
\* and Complete otherwise (n = 0 with the colon as last byte included).
C1_IncompleteIffShort ==
    (Called /\ HasLengthHeader(res.old)) =>
        IF Len(res.old) < FrameLength(res.old)
        THEN res.kind = "Incomplete"
        ELSE res.kind = "Complete"

\* C2: whenever process answers Complete, the message is the first
\* c + 1 + n bytes of the buffer it was given and the buffer it leaves is
\* the rest, in order.
C2_CompleteTakesFrame ==
    res.kind = "Complete" =>
        /\ HasLengthHeader(res.old)
        /\ FrameLength(res.old) <= Len(res.old)
        /\ res.msg = Bytes(res.old, 0, FrameLength(res.old))
        /\ buf = Bytes(res.old, FrameLength(res.old), Len(res.old))

\* C3: a fully buffered multiplexed frame "+IPD,<id>,<n>:<payload>" is
\* answered Complete and its message parses to connection_id = Some(id).
C3_MuxFrameCompletes ==
    (Called /\ IsMuxFrame(res.old)) =>
        /\ res.kind = "Complete"
        /\ urc.kind # "None" =>
               /\ urc.kind = "NetworkData"
               /\ urc.connection_id = [kind |-> "Some", id |-> At(res.old, 5)]

\* C4: the message of a complete non-multiplexed frame parses to
\* connection_id = None and data = the n payload bytes after the colon.
C4_PayloadAfterColon ==
    (urc.kind # "None" /\ IsFrame(res.msg)) =>
        /\ urc.kind = "NetworkData"
        /\ urc.connection_id = None
        /\ urc.data = Payload(res.msg)

\* C5: a frame with a non-empty payload delivered in two chunks: the call
\* on the first chunk (a proper prefix holding "+IPD,") answers Incomplete
\* and leaves the buffer as it was; the call on the whole frame answers
\* Complete with the frame as message and all of it consumed, whether or
\* not an Incomplete call came before (res.waited) - the one-shot result.
C5_TwoChunks ==
    /\ (Called /\ IsFramePrefix(res.old)) =>
           res.kind = "Incomplete" /\ buf = res.old
    /\ (Called /\ IsFrame(res.old) /\ DeclaredLength(res.old) >= 1) =>
           res.kind = "Complete" /\ res.msg = res.old /\ buf = <<>>

\* C5 witness: a frame with a payload completed after the engine had been
\* told Incomplete for a prefix of it.
C5_Witness ==
    /\ res.kind = "Complete"
    /\ res.waited
    /\ IsFrame(res.old)
    /\ DeclaredLength(res.old) = 1

\* C6: the framer holds no state between calls: a call answering Incomplete
\* or NotHandled leaves the buffer byte for byte unchanged, and a call
\* made on the buffer the previous call saw and left unchanged gives the
\* same classification.
C6_Stateless ==
    [][Digest =>
         /\ res'.kind \in {"Incomplete", "NotHandled"} => buf' = buf
         /\ (Called /\ buf = res.old) => res'.kind = res.kind]_vars

\* C6 witness: a second call in a row on an unchanged buffer.
C6_Witness ==
    /\ res.kind = "Incomplete"
    /\ res.repeated
    /\ buf = res.old
    /\ Len(buf) > 5

\* C7: process answers NotHandled exactly for the buffers that do not
\* begin with the literal "+IPD," (case and punctuation count).
C7_NotHandledIffNoPrefix ==
    Called => (res.kind = "NotHandled" <=> ~BeginsWithIpd(res.old))

\* C7 witness: "+ipd," followed by more bytes was answered NotHandled.
C7_Witness ==
    /\ res.kind = "NotHandled"
    /\ Len(res.old) > 5
    /\ SubSeq(res.old, 1, 5) = <<"+", "i", "p", "d", ",">>

\* C8: with "+IPD," and the header's colon buffered, a header text that is
\* no decimal length (empty, or with a byte that is neither digit nor
\* comma) is reported as a parse error, not as Incomplete.
C8_BadHeaderIsError ==
    ( /\ Called
      /\ BeginsWithIpd(res.old)
      /\ ColonOffset(res.old) >= 5
      /\ \/ ColonOffset(res.old) = 5
         \/ \E i \in 5..(ColonOffset(res.old) - 1) :
               ~IsDigit(At(res.old, i)) /\ At(res.old, i) # "," )
    => res.kind = "ParseError"

-----------------------------------------------------------------------------
(* Properties of the response decoders *)

\* The engine has handed a response to the command's parse
Decoded == decoded.kind # "None"

\* C9: for every command, response bytes that are not legal UTF-8 decode to
\* a typed error (Parse or InvalidResponse), never to a panic.
C9_InvalidTextIsError ==
    (Decoded /\ decoded.resp.ok /\ ~FromUtf8Ok(decoded.resp.bytes)) =>
        decoded.kind = "Err" /\ decoded.error \in {"Parse", "InvalidResponse"}

\* C10: for every command, the error indicator Err(InternalError) decodes
\* to the passed-through transport error, never to a successful response.
C10_TransportErrorPassesThrough ==
    (Decoded /\ ~decoded.resp.ok) =>
        decoded.kind = "Err" /\ decoded.error = "Internal"

\* The commands whose Response type is EmptyResponse
EmptyResponseCommands ==
    { "At", "Restart", "SetWifiMode", "ListAccessPoints", "EstablishConnection",
      "PrepareSendData", "SendData", "CloseConnection" }

\* C11: for every command whose response type is EmptyResponse, a response
\* of legal text decodes to success exactly when its whitespace-trimmed
\* body is empty, and to InvalidResponse when the body has other content.
C11_EmptyIffTrimmedEmpty ==
    ( /\ Decoded
      /\ cmd.kind \in EmptyResponseCommands
      /\ decoded.resp.ok
      /\ FromUtf8Ok(decoded.resp.bytes) )
    => IF Trim(decoded.resp.bytes) = <<>>
       THEN decoded.kind = "Ok"
       ELSE decoded.kind = "Err" /\ decoded.error = "InvalidResponse"

-----------------------------------------------------------------------------
(* Properties of the command encoders and of the client *)

\* A command has been handed to send_command
Sent == cmd.kind # "None"

\* C12: for every command value that can be constructed, as_bytes succeeds
\* and the encoded byte count is at most the CommandLen of the command.
C12_EncodingFitsCommandLen ==
    Sent => /\ wire.kind = "Ok"
            /\ Len(wire.bytes) <= CommandLen(cmd.kind)

\* C13: an EstablishConnection command goes out to the device only on a
\* client on which a JoinAccessPoint exchange has completed successfully
\* before; the client rejects it otherwise.
C13_OpenOnlyAfterJoin ==
    (Sent /\ cmd.kind = "EstablishConnection" /\ wire.kind = "Ok") => joined

\* C14 as stated: the timeout JoinAccessPoint declares is greater than or
\* equal to the timeout declared by every other command that is sent.
C14_JoinTimeoutIsLongest ==
    (Sent /\ wire.declared) =>
        MaxTimeoutMs("JoinAccessPoint") >= wire.timeout_ms

\* The commands that declare a longer timeout than JoinAccessPoint
LongerThanJoin == {"EstablishConnection", "SendData"}

\* C14: the timeout JoinAccessPoint declares is greater than or equal to
\* the timeout declared by every command that is sent, except
\* EstablishConnection and SendData, which declare a longer one.
C14_JoinTimeoutLongestButOpenAndSend ==
    (Sent /\ wire.declared) =>
        IF cmd.kind \in LongerThanJoin
        THEN wire.timeout_ms > MaxTimeoutMs("JoinAccessPoint")
        ELSE MaxTimeoutMs("JoinAccessPoint") >= wire.timeout_ms

\* C14 witness: ListAccessPoints, the slowest of the other commands, was
\* sent with the timeout it declares.
C14_Witness ==
    /\ Sent
    /\ cmd.kind = "ListAccessPoints"
    /\ wire.declared
    /\ wire.timeout_ms > 0
    /\ wire.timeout_ms < MaxTimeoutMs("JoinAccessPoint")

-----------------------------------------------------------------------------
(* Properties of the decoders of structured responses *)

\* C15: GetLocalAddress decode of a response made of a well-formed IP line
\* and a well-formed MAC line, each present or not, in either order: the
\* result does not depend on the order; it is a parse error exactly when
\* the MAC line is missing or the IP text is no IPv4 address; otherwise mac
\* is the 17 characters verbatim and ip is absent for a missing IP line and
\* for 0.0.0.0, and the parsed address for every other text.
C15_LocalAddress ==
    (Decoded /\ cmd.kind = "GetLocalAddress" /\ decoded.resp.ok) =>
        \A k \in AddressCases :
            decoded.resp.bytes = AddressBody(k) =>
                IF k.mac.kind = "none" \/ k.ip.kind = "bad"
                THEN decoded.kind = "Err" /\ decoded.error = "Parse"
                ELSE /\ decoded.kind = "Ok"
                     /\ decoded.value.mac = k.mac.text
                     /\ Len(decoded.value.mac) = 17
                     /\ decoded.value.ip =
                            IF k.ip.kind = "none" \/ k.ip.octets = <<0, 0, 0, 0>>
                            THEN <<"none">>
                            ELSE <<"some", k.ip.octets>>

\* C15 witness: a response with the MAC line first and an address in the IP
\* line decoded to both.
C15_Witness ==
    /\ Decoded
    /\ cmd.kind = "GetLocalAddress"
    /\ decoded.kind = "Ok"
    /\ StartsWith(decoded.resp.bytes, CIFSR_STAMAC)
    /\ decoded.value.ip = <<"some", <<255, 255, 255, 255>> >>

\* C16: for every command, a response of legal text, however malformed or
\* cut short, decodes to a value or to a typed error; the decoder never
\* panics on a slice out of range or on a text over the capacity of a field.
C16_MalformedTextNeverPanics ==
    (Decoded /\ decoded.resp.ok /\ FromUtf8Ok(decoded.resp.bytes)) =>
        decoded.kind \in {"Ok", "Err"}

\* The lines of the case ks that set or clear connected
ConnectionLines(ks) == { i \in 1..Len(ks) : ks[i] \in {"CONNECTED", "DISCONNECTED"} }

\* The last of a non-empty set of line numbers
LastOf(S) == CHOOSE i \in S : \A j \in S : j <= i

\* C17: JoinAccessPoint decode of legal text never fails, and for a
\* response of marker lines and other lines, connected is true exactly when
\* the last line among "WIFI CONNECTED" and "WIFI DISCONNECTED" is "WIFI
\* CONNECTED" (false when there is none), got_ip is true exactly when some
\* line is "WIFI GOT IP", and other lines change nothing.
C17_JoinFoldsLines ==
    ( /\ Decoded
      /\ cmd.kind = "JoinAccessPoint"
      /\ decoded.resp.ok
      /\ FromUtf8Ok(decoded.resp.bytes) )
    => /\ decoded.kind = "Ok"
       /\ \A ks \in JoinCases :
            decoded.resp.bytes = JoinBody(ks) =>
                /\ decoded.value.connected =
                       ( /\ ConnectionLines(ks) # {}
                         /\ ks[LastOf(ConnectionLines(ks))] = "CONNECTED" )
                /\ decoded.value.got_ip = (\E i \in 1..Len(ks) : ks[i] = "GOT_IP")

\* C17 witness: a response whose first line connects, with a later line that
\* disconnects and a line that reports the address, decoded to
\* connected = false and got_ip = true.
C17_Witness ==
    /\ Decoded
    /\ cmd.kind = "JoinAccessPoint"
    /\ decoded.kind = "Ok"
    /\ StartsWith(decoded.resp.bytes, WIFI_CONNECTED \o <<"CR", "LF">>)
    /\ ~decoded.value.connected
    /\ decoded.value.got_ip

\* The first three lines of the case ks are the three version lines in order
FirstThreeInOrder(ks) ==
    Len(ks) >= 3 /\ ks[1] = "AT" /\ ks[2] = "SDK" /\ ks[3] = "COMPILE"

\* The decoded FirmwareVersion holds the three remainders verbatim
RemaindersVerbatim ==
    /\ decoded.value.at_version = FirmwareRemainder("AT")
    /\ decoded.value.sdk_version = FirmwareRemainder("SDK")
    /\ decoded.value.compile_time = FirmwareRemainder("COMPILE")

\* C18 as stated: GetFirmwareVersion decode succeeds only for a response of
\* exactly three lines with the three prefixes in order, then returns the
\* remainders verbatim; a response where one of the three lines is absent
\* or lacks its prefix decodes to a parse error.
C18_ExactlyThreeLines ==
    (Decoded /\ cmd.kind = "GetFirmwareVersion" /\ decoded.resp.ok) =>
        \A ks \in FirmwareCases :
            decoded.resp.bytes = FirmwareBody(ks) =>
                /\ decoded.kind = "Ok" =>
                       Len(ks) = 3 /\ FirstThreeInOrder(ks) /\ RemaindersVerbatim
                /\ ~FirstThreeInOrder(ks) =>
                       decoded.kind = "Err" /\ decoded.error = "Parse"

\* C18: GetFirmwareVersion decode succeeds only for a response whose first
\* three lines have the three prefixes in order (lines after the third are
\* ignored), then returns the three remainders verbatim; a response where
\* one of the first three lines is absent or lacks its prefix decodes to a
\* parse error.
C18_FirstThreeLines ==
    (Decoded /\ cmd.kind = "GetFirmwareVersion" /\ decoded.resp.ok) =>
        \A ks \in FirmwareCases :
            decoded.resp.bytes = FirmwareBody(ks) =>
                /\ decoded.kind = "Ok" =>
                       FirstThreeInOrder(ks) /\ RemaindersVerbatim
                /\ ~FirstThreeInOrder(ks) =>
                       decoded.kind = "Err" /\ decoded.error = "Parse"

\* C18 witness: a response of four lines, the first three in order, decoded
\* to the three remainders.
C18_Witness ==
    /\ Decoded
    /\ cmd.kind = "GetFirmwareVersion"
    /\ decoded.resp.ok
    /\ decoded.resp.bytes = FirmwareBody(<<"AT", "SDK", "COMPILE", "AT">>)
    /\ decoded.kind = "Ok"
    /\ RemaindersVerbatim

-----------------------------------------------------------------------------
(* Properties of the framer and of its buffer *)

\* The header "+IPD,<n>:" and all n payload bytes of a frame have been
\* received: they are all in the buffer b, or all but the last are and a
\* byte found the buffer full
FrameReceived(b) ==
    /\ HasLengthHeader(b)
    /\ \/ Len(b) = FrameLength(b)
       \/ /\ overflowed
          /\ Len(b) < FrameLength(b)
          /\ Len(b) + 1 >= FrameLength(b)

\* C19: once the header and all n payload bytes of a non-multiplexed frame
\* have been received, process answers Complete, for every n the device
\* delivers (n >= 1 here: n = 0 is the case of C1); the capacity of the
\* buffer does not stand in the way. The device delivers payloads longer
\* than the buffer: 1460 bytes against MaxLen = 256, in the model a payload
\* of 4 bytes against START + MaxTail.
C19_CapacityNeverPreventsFrame ==
    (Called /\ FrameReceived(res.old) /\ DeclaredLength(res.old) >= 1) =>
        res.kind = "Complete"

\* b is a proper prefix of the signature "+IPD,": its first 0 to 4 bytes
IsSignaturePrefix(b) ==
    /\ Len(b) <= 4
    /\ b = SubSeq(<<"+", "I", "P", "D">>, 1, Len(b))

\* Bytes are appended to the buffer in this step
Appended == buf' # buf /\ IsPrefixOf(buf, buf')

\* C20 as stated: NotHandled is stable under appending bytes: when process
\* has answered NotHandled for the buffer, it answers NotHandled for the
\* buffer with further bytes appended.
C20_NotHandledStable ==
    [][(res.kind = "NotHandled" /\ Appended) =>
          Process(buf', build).kind = "NotHandled"]_vars

\* C20: NotHandled is stable under appending bytes for every buffer that
\* is not a proper prefix of the signature "+IPD,"; a buffer holding only
\* the first 0 to 4 bytes of the signature is answered NotHandled all the
\* same, as every buffer that does not begin with the whole signature is.
C20_NotHandledStableButSignaturePrefix ==
    [][/\ (res.kind = "NotHandled" /\ Appended /\ ~IsSignaturePrefix(buf)) =>
             Process(buf', build).kind = "NotHandled"
       /\ (Digest /\ IsSignaturePrefix(buf)) => res'.kind = "NotHandled"]_vars

\* C20 witness: process was called on the first four bytes of the signature
\* and answered NotHandled.
C20_Witness ==
    /\ res.kind = "NotHandled"
    /\ res.old = <<"+", "I", "P", "D">>
    /\ buf = res.old

\* C21: for every buffer "+IPD,<digits>:..." process computes
\* total_length = end + 1 + length without overflow and slices within the
\* buffer: it answers NotHandled, Incomplete or Complete (it does not
\* panic), and a Complete message holds the header, the colon and all of
\* the declared payload.
C21_NoOverflowNoBadSlice ==
    (Called /\ HasLengthHeader(res.old)) =>
        /\ res.kind \in {"NotHandled", "Incomplete", "Complete"}
        /\ res.kind = "Complete" =>
               /\ Len(res.msg) = FrameLength(res.old)
               /\ ColonOffset(res.msg) = ColonOffset(res.old)
               /\ Len(Payload(res.msg)) = DeclaredLength(res.old)

====
